---- MODULE Spec2Model ----
(***************************************************************************)
(* Model of scripts/validate-release.py: the post-release validation run   *)
(* of ContainerBar.  One run is main(): the usage guard, then the seven    *)
(* adapters check_info_plist .. check_notarization in their fixed order,   *)
(* then the summary and sys.exit.  Python str values are TLA+ strings; the *)
(* external sources (files, commands, the feed URL) answer each access     *)
(* with a value drawn from a small set of sample answers.                  *)
(***************************************************************************)
EXTENDS Integers, Sequences, FiniteSets, TLC

VARIABLES
    argv,        \* sys.argv[1:], the command-line arguments
    version,     \* local version of main ("" until line 147 sets it)
    isdir,       \* os.path.isdir(APP_BUNDLE) as check_notarization saw it
    pc,          \* position of main()
    passed,      \* global counter passed
    failed,      \* global counter failed
    out,         \* lines written to standard output, in order
    total,       \* local total of main, -1 until line 160 sets it
    exitStatus,  \* process exit status, -1 while running
    traceback,   \* TRUE iff an exception escaped main()
    fn,          \* adapter that ran last ("" before the first)
    runs,        \* external commands launched by that adapter, in order
    calls        \* accesses made to each external source during the run

vars == <<argv, version, isdir, pc, passed, failed, out, total, exitStatus,
          traceback, fn, runs, calls>>

-----------------------------------------------------------------------------
(* Bounds and sample inputs *)

MaxArgs == 3

Versions == {"1.2.0"}

-----------------------------------------------------------------------------
(* Configuration, lines 22-23 *)

APP_BUNDLE == "/r/dist/ContainerBar.app"
HOMEBREW_CASK == "/h/Desktop/homebrew-tap/Casks/containerbar.rb"

-----------------------------------------------------------------------------
(* Python str operations used by the script *)

Char(s, i) == SubSeq(s, i, i)

IsSpace(c) == c \in {" ", "\n", "\t", "\r"}

\* sub in s
Contains(sub, s) ==
    \E i \in 1..(Len(s) - Len(sub) + 1) : SubSeq(s, i, i + Len(sub) - 1) = sub

RECURSIVE LStrip(_)
LStrip(s) ==
    IF s # "" /\ IsSpace(Char(s, 1)) THEN LStrip(SubSeq(s, 2, Len(s))) ELSE s

RECURSIVE RStrip(_)
RStrip(s) ==
    IF s # "" /\ IsSpace(Char(s, Len(s))) THEN RStrip(SubSeq(s, 1, Len(s) - 1))
    ELSE s

\* s.strip()
Strip(s) == RStrip(LStrip(s))

\* index of the first newline of s at or after i, Len(s) + 1 when none
RECURSIVE NextNL(_, _)
NextNL(s, i) ==
    IF i > Len(s) \/ Char(s, i) = "\n" THEN i ELSE NextNL(s, i + 1)

\* s.split("\n"), as the sequence of its pieces
RECURSIVE SplitNL(_)
SplitNL(s) ==
    LET k == NextNL(s, 1)
    IN  IF k > Len(s) THEN <<s>>
        ELSE <<SubSeq(s, 1, k - 1)>> \o SplitNL(SubSeq(s, k + 1, Len(s)))

\* x in s.split("\n")
InLines(x, s) == \E i \in DOMAIN SplitNL(s) : SplitNL(s)[i] = x

Upper == "ABCDEFGHIJKLMNOPQRSTUVWXYZ"
LowerOf == "abcdefghijklmnopqrstuvwxyz"

LowerChar(c) ==
    IF \E i \in 1..26 : Char(Upper, i) = c
    THEN Char(LowerOf, CHOOSE i \in 1..26 : Char(Upper, i) = c)
    ELSE c

\* s.lower()
RECURSIVE Lower(_)
Lower(s) ==
    IF s = "" THEN "" ELSE LowerChar(Char(s, 1)) \o Lower(SubSeq(s, 2, Len(s)))

-----------------------------------------------------------------------------
(* Python values that plistlib can hand back for a field *)

PyStr(s) == [t |-> "str", s |-> s, n |-> 0]
PyInt(n) == [t |-> "int", s |-> "", n |-> n]
PyBool(b) == [t |-> "bool", s |-> "", n |-> IF b THEN 1 ELSE 0]

\* truth value of x, as `if detail` takes it
Truthy(x) == IF x.t = "str" THEN x.s # "" ELSE x.n # 0

\* x == s for a str s: a value of another type never equals a str
EqStr(x, s) == x.t = "str" /\ x.s = s

-----------------------------------------------------------------------------
(* check(), lines 32-39.  rep is the report so far: the two counters and   *)
(* the output.  The counter is incremented before the line is formatted,   *)
(* and formatting evaluates ': ' + detail, which raises TypeError for a    *)
(* truthy detail that is not a str; then nothing is printed.               *)

CheckLine(tag, label, detail) ==
    [tag |-> tag, label |-> label, detail |-> detail]

check(rep, label, condition, detail) ==
    LET p == IF condition THEN rep.passed + 1 ELSE rep.passed
        f == IF condition THEN rep.failed ELSE rep.failed + 1
        tag == IF condition THEN "PASS" ELSE "FAIL"
    IN  IF Truthy(detail) /\ detail.t # "str"
        THEN [passed |-> p, failed |-> f, out |-> rep.out, exc |-> "TypeError"]
        ELSE [passed |-> p, failed |-> f,
              out |-> Append(rep.out, CheckLine(tag, label, detail.s)),
              exc |-> ""]

\* the report part of a result of check
Rep(r) == [passed |-> r.passed, failed |-> r.failed, out |-> r.out]

-----------------------------------------------------------------------------
(* check_info_plist, lines 48-59 *)

\* what open + plistlib.load can give: an exception, or the parsed value
PlistValues ==
    [CFBundleShortVersionString |-> {PyStr("1.2.0"), PyStr("1.1.9"), PyInt(2)},
     CFBundleVersion |-> {PyStr("7"), PyStr(""), PyInt(42), PyBool(FALSE)}]

\* the dictionaries holding some of the two fields
PlistDicts ==
    UNION {{d \in [K -> UNION {PlistValues[k] : k \in K}] :
                \A k \in K : d[k] \in PlistValues[k]} :
           K \in SUBSET {"CFBundleShortVersionString", "CFBundleVersion"}}

PlistFiles ==
    {[exc |-> e, top |-> "", d |-> <<>>] :
        e \in {"FileNotFoundError", "InvalidFileException"}}
    \cup {[exc |-> "", top |-> "list", d |-> <<>>]}
    \cup {[exc |-> "", top |-> "dict", d |-> d] : d \in PlistDicts}

\* plist.get(key, default)
Get(d, key, default) == IF key \in DOMAIN d THEN d[key] ELSE default

\* the except branch, lines 57-59
PlistExcept(rep, e) ==
    LET r1 == check(rep, "Info.plist version", FALSE, PyStr(e))
    IN  check(Rep(r1), "Info.plist build", FALSE, PyStr("could not read"))

check_info_plist(rep, ver, file) ==
    IF file.exc # "" THEN PlistExcept(rep, file.exc)
    ELSE IF file.top # "dict" THEN PlistExcept(rep, "AttributeError")
    ELSE
        LET plist_version == Get(file.d, "CFBundleShortVersionString", PyStr(""))
            build_number == Get(file.d, "CFBundleVersion", PyStr(""))
            r1 == check(rep, "Info.plist version", EqStr(plist_version, ver),
                        plist_version)
            r2 == check(Rep(r1), "Info.plist build", ~EqStr(build_number, ""),
                        build_number)
        IN  IF r1.exc # "" THEN PlistExcept(Rep(r1), r1.exc)
            ELSE IF r2.exc # "" THEN PlistExcept(Rep(r2), r2.exc)
            ELSE r2

-----------------------------------------------------------------------------
(* run(), lines 42-45.  p is what the child process did: exc is the        *)
(* exception subprocess.run raised ("" when it returned), else rc, stdout  *)
(* and stderr are the child's.  The result is the call as the adapter sees *)
(* it: the exception, or (returncode, stdout.strip()).                     *)

Proc(exc, rc, stdout, stderr) ==
    [exc |-> exc, rc |-> rc, stdout |-> stdout, stderr |-> stderr]

run(cmd, p) ==
    IF p.exc # "" THEN [cmd |-> cmd, exc |-> p.exc, rc |-> 0, out |-> ""]
    ELSE [cmd |-> cmd, exc |-> "", rc |-> p.rc, out |-> Strip(p.stdout)]

\* an adapter's result: the report, the exception that escaped it ("" when
\* it returned) and the commands it launched
Result(r, exc, rs) ==
    [passed |-> r.passed, failed |-> r.failed, out |-> r.out, exc |-> exc,
     runs |-> rs]

-----------------------------------------------------------------------------
(* check_changelog, lines 62-71 *)

ChangelogFiles ==
    {[exc |-> "FileNotFoundError", content |-> ""]}
    \cup {[exc |-> "", content |-> c] :
            c \in {"# Changelog\n## [1.2.0] - 2025\n", "## [1.2.1]\n"}}

\* re.search(rf"## \[{re.escape(version)}\]", content): with the version
\* escaped the pattern matches the literal text "## [<version>]" only
ChangelogFound(ver, content) == Contains("## [" \o ver \o "]", content)

check_changelog(rep, ver, file) ==
    IF file.exc # ""
    THEN check(rep, "CHANGELOG.md entry found", FALSE, PyStr(file.exc))
    ELSE check(rep, "CHANGELOG.md entry found",
               ChangelogFound(ver, file.content), PyStr(""))

-----------------------------------------------------------------------------
(* check_git_tag, lines 74-79 *)

GitProcs ==
    {Proc(e, 0, "", "") : e \in {"OSError", "UnicodeDecodeError"}}
    \cup {Proc("", rc, so, "") :
            rc \in {0, 128},
            so \in {"", "v1.2.0\n", "v1.2.0-beta\n", "v1.2.0\nv1.2.0-beta\n"}}

check_git_tag(rep, ver, p1, p2) ==
    LET tag == "v" \o ver
        r1 == run("git tag", p1)
        r2 == run("git tag", p2)
        tags == r2.out
    IN  IF r1.exc # "" THEN Result(rep, r1.exc, <<r1>>)
        ELSE IF r2.exc # "" THEN Result(rep, r2.exc, <<r1, r2>>)
        ELSE Result(check(rep, "Git tag exists", InLines(tag, tags), PyStr(tag)),
                    "", <<r1, r2>>)

-----------------------------------------------------------------------------
(* check_homebrew_cask, lines 82-93 *)

RECURSIVE SkipSpace(_, _)
SkipSpace(s, i) ==
    IF i <= Len(s) /\ IsSpace(Char(s, i)) THEN SkipSpace(s, i + 1) ELSE i

RECURSIVE NextQuote(_, _)
NextQuote(s, i) ==
    IF i > Len(s) \/ Char(s, i) = "\"" THEN i ELSE NextQuote(s, i + 1)

\* version\s+"([^"]+)" matches at position i of s
CaskMatchAt(s, i) ==
    LET j == SkipSpace(s, i + 7)
        k == NextQuote(s, j + 1)
    IN  /\ SubSeq(s, i, i + 6) = "version"
        /\ j > i + 7
        /\ j <= Len(s) /\ Char(s, j) = "\""
        /\ k <= Len(s) /\ k > j + 1

\* group 1 of the match at position i
CaskGroup(s, i) ==
    LET j == SkipSpace(s, i + 7)
    IN  SubSeq(s, j + 1, NextQuote(s, j + 1) - 1)

\* match.group(1) if match else "", for the leftmost match of re.search
CaskVersion(s) ==
    LET at == {i \in 1..Len(s) : i + 6 <= Len(s) /\ CaskMatchAt(s, i)}
    IN  IF at = {} THEN ""
        ELSE CaskGroup(s, CHOOSE i \in at : \A m \in at : i <= m)

CaskFiles ==
    {[exc |-> e, content |-> ""] : e \in {"FileNotFoundError", "PermissionError"}}
    \cup {[exc |-> "", content |-> c] :
            c \in {"cask \"cb\" do\n  version \"1.2.0\"\n  sha256 \"ab\"\n",
                   "cask \"cb\" do\n  version :latest\n"}}

check_homebrew_cask(rep, ver, file) ==
    IF file.exc = "FileNotFoundError"
    THEN check(rep, "Homebrew cask version", FALSE,
               PyStr("file not found: " \o HOMEBREW_CASK))
    ELSE IF file.exc # ""
    THEN check(rep, "Homebrew cask version", FALSE, PyStr(file.exc))
    ELSE LET cask_version == CaskVersion(file.content)
         IN  check(rep, "Homebrew cask version", cask_version = ver,
                   PyStr(cask_version))

-----------------------------------------------------------------------------
(* check_github_release, lines 96-107 *)

GhViewProcs ==
    {Proc("OSError", 0, "", ""),
     Proc("", 0, "title: ContainerBar\n", ""),
     Proc("", 1, "", "release not found\n"),
     Proc("", 127, "", "sh: gh: not found\n")}

GhAssetsProcs ==
    {Proc("UnicodeDecodeError", 0, "", "")}
    \cup {Proc("", rc, so, "") :
            rc \in {0, 1},
            so \in {"", "ContainerBar.zip\n", "ContainerBar.zip.sha256\n",
                    "OldContainerBar.zip\n", "notes.txt\nContainerBar.zip\n"}}

check_github_release(rep, ver, p1, p2) ==
    LET tag == "v" \o ver
        r1 == run("gh release view", p1)
        r2 == run("gh release assets", p2)
        c1 == check(rep, "GitHub release exists", r1.rc = 0, PyStr(tag))
        assets == r2.out
        has_zip == Contains("ContainerBar.zip", assets)
    IN  IF r1.exc # "" THEN Result(rep, r1.exc, <<r1>>)
        ELSE IF r1.rc = 0
        THEN IF r2.exc # "" THEN Result(c1, r2.exc, <<r1, r2>>)
             ELSE Result(check(Rep(c1), "Release asset ContainerBar.zip uploaded",
                               has_zip, PyStr("")),
                         "", <<r1, r2>>)
        ELSE Result(check(Rep(c1), "Release asset ContainerBar.zip uploaded",
                          FALSE, PyStr("release not found")),
                    "", <<r1>>)

-----------------------------------------------------------------------------
(* check_appcast, lines 110-121 *)

\* what urlopen + read + decode can give: an exception, or the body
AppcastFetches ==
    {[exc |-> "URLError", data |-> ""]}
    \cup {[exc |-> "", data |-> d] :
            d \in {"<enclosure sparkle:shortVersionString=\"1.2.0\"/>",
                   "<enclosure sparkle:shortVersionString=\"1.1.9\"/>"}}

check_appcast(rep, ver, fetch) ==
    IF fetch.exc # ""
    THEN check(rep, "Appcast contains version", FALSE, PyStr(fetch.exc))
    ELSE check(rep, "Appcast contains version", Contains(ver, fetch.data),
               PyStr("v" \o ver))

-----------------------------------------------------------------------------
(* check_notarization, lines 124-138 *)

\* the assessment command launched through the shell by run(), line 130
SpctlShellProcs ==
    {Proc("OSError", 0, "", ""),
     Proc("", 0, "", APP_BUNDLE \o ": accepted\n"),
     Proc("", 127, "", "sh: spctl: not found\n")}

\* the assessment command launched directly by subprocess.run, line 132
SpctlProcs ==
    {Proc("FileNotFoundError", 0, "", ""),
     Proc("", 0, "", APP_BUNDLE \o ": Accepted\nsource=Notarized\n"),
     Proc("", 3, "", APP_BUNDLE \o ": rejected\n")}

\* check_notarization without the return of line 128
check_notarization_no_return(rep, d, p1, p2) ==
    LET rep0 == IF d THEN rep
                ELSE Rep(check(rep, "App notarization valid", FALSE,
                               PyStr("app not found: " \o APP_BUNDLE)))
        r1 == run("spctl", p1)
        r2 == [cmd |-> "spctl", exc |-> p2.exc, rc |-> p2.rc,
               out |-> p2.stdout]
        combined == p2.stdout \o p2.stderr
        accepted == Contains("accepted", Lower(combined))
    IN  IF r1.exc # "" THEN Result(rep0, r1.exc, <<r1>>)
        ELSE IF r2.exc # "" THEN Result(rep0, r2.exc, <<r1, r2>>)
        ELSE Result(check(rep0, "App notarization valid", accepted,
                          PyStr(IF accepted THEN "accepted"
                                ELSE Strip(combined))),
                    "", <<r1, r2>>)

check_notarization(rep, d, p1, p2) ==
    IF ~d
    THEN Result(check(rep, "App notarization valid", FALSE,
                      PyStr("app not found: " \o APP_BUNDLE)),
                "", <<>>)
    ELSE
        LET r1 == run("spctl", p1)
            r2 == [cmd |-> "spctl", exc |-> p2.exc, rc |-> p2.rc,
                   out |-> p2.stdout]
            combined == p2.stdout \o p2.stderr
            accepted == Contains("accepted", Lower(combined))
        IN  IF r1.exc # "" THEN Result(rep, r1.exc, <<r1>>)
            ELSE IF r2.exc # "" THEN Result(rep, r2.exc, <<r1, r2>>)
            ELSE Result(check(rep, "App notarization valid", accepted,
                              PyStr(IF accepted THEN "accepted"
                                    ELSE Strip(combined))),
                        "", <<r1, r2>>)

-----------------------------------------------------------------------------
(* main, lines 141-167 *)

Sources == {"Info.plist", "CHANGELOG.md", "git tag", "cask", "gh release view",
            "gh release assets", "appcast", "spctl"}

Args == UNION {[1..n -> Versions] : n \in 0..MaxArgs}

Init ==
    /\ argv \in Args
    /\ version = ""
    /\ isdir = FALSE
    /\ pc = "main"
    /\ passed = 0
    /\ failed = 0
    /\ out = <<>>
    /\ total = -1
    /\ exitStatus = -1
    /\ traceback = FALSE
    /\ fn = ""
    /\ runs = <<>>
    /\ calls = [s \in Sources |-> 0]

\* the guard written as len(sys.argv) < 2
UsageError_missing_only(a) == Len(a) + 1 < 2

\* len(sys.argv) != 2, line 142; a is sys.argv[1:]
UsageError(a) == Len(a) + 1 # 2

\* lines 142-145
Usage ==
    /\ pc = "main"
    /\ UsageError(argv)
    /\ out' = out \o <<CheckLine("", "Usage", ""), CheckLine("", "Example", "")>>
    /\ exitStatus' = 2
    /\ pc' = "exited"
    /\ UNCHANGED <<argv, version, isdir, passed, failed, total, traceback, fn,
                   runs, calls>>

\* lines 147-150
Start ==
    /\ pc = "main"
    /\ ~UsageError(argv)
    /\ version' = argv[1]
    /\ out' = out \o <<CheckLine("", "Release Validation", "v" \o argv[1]),
                       CheckLine("", "==============================", "")>>
    /\ pc' = "check_info_plist"
    /\ UNCHANGED <<argv, isdir, passed, failed, total, exitStatus, traceback,
                   fn, runs, calls>>

\* the report held by the globals and standard output
Report == [passed |-> passed, failed |-> failed, out |-> out]

\* number of the commands cmd among the launched commands rs
Launched(rs, cmd) == Cardinality({i \in DOMAIN rs : rs[i].cmd = cmd})

\* An adapter called at its line of main gave r.  When it returned, main
\* goes on to the next statement; when it raised, nothing in main catches
\* the exception: the interpreter prints the traceback and the process ends
\* with status 1.
Adapter(name, r, next) ==
    /\ passed' = r.passed
    /\ failed' = r.failed
    /\ out' = r.out
    /\ fn' = name
    /\ runs' = r.runs
    /\ IF r.exc = ""
       THEN pc' = next /\ UNCHANGED <<exitStatus, traceback>>
       ELSE pc' = "exited" /\ exitStatus' = 1 /\ traceback' = TRUE
    /\ UNCHANGED <<argv, version, total>>

Access(src, k) == [calls EXCEPT ![src] = @ + k]

\* line 152
CheckInfoPlist ==
    /\ pc = "check_info_plist"
    /\ \E file \in PlistFiles :
          LET r == check_info_plist(Report, version, file)
          IN  Adapter("check_info_plist", Result(r, "", <<>>), "check_changelog")
    /\ calls' = Access("Info.plist", 1)
    /\ UNCHANGED isdir

\* line 153
CheckChangelog ==
    /\ pc = "check_changelog"
    /\ \E file \in ChangelogFiles :
          LET r == check_changelog(Report, version, file)
          IN  Adapter("check_changelog", Result(r, "", <<>>), "check_git_tag")
    /\ calls' = Access("CHANGELOG.md", 1)
    /\ UNCHANGED isdir

\* line 154
CheckGitTag ==
    /\ pc = "check_git_tag"
    /\ \E p1 \in GitProcs, p2 \in GitProcs :
          LET r == check_git_tag(Report, version, p1, p2)
          IN  /\ Adapter("check_git_tag", r, "check_homebrew_cask")
              /\ calls' = Access("git tag", Launched(r.runs, "git tag"))
    /\ UNCHANGED isdir

\* line 155
CheckHomebrewCask ==
    /\ pc = "check_homebrew_cask"
    /\ \E file \in CaskFiles :
          LET r == check_homebrew_cask(Report, version, file)
          IN  Adapter("check_homebrew_cask", Result(r, "", <<>>),
                      "check_github_release")
    /\ calls' = Access("cask", 1)
    /\ UNCHANGED isdir

\* line 156
CheckGithubRelease ==
    /\ pc = "check_github_release"
    /\ \E p1 \in GhViewProcs, p2 \in GhAssetsProcs :
          LET r == check_github_release(Report, version, p1, p2)
          IN  /\ Adapter("check_github_release", r, "check_appcast")
              /\ calls' = [calls EXCEPT
                    !["gh release view"] =
                        @ + Launched(r.runs, "gh release view"),
                    !["gh release assets"] =
                        @ + Launched(r.runs, "gh release assets")]
    /\ UNCHANGED isdir

\* line 157
CheckAppcast ==
    /\ pc = "check_appcast"
    /\ \E fetch \in AppcastFetches :
          LET r == check_appcast(Report, version, fetch)
          IN  Adapter("check_appcast", Result(r, "", <<>>), "check_notarization")
    /\ calls' = Access("appcast", 1)
    /\ UNCHANGED isdir

\* line 158
CheckNotarization ==
    /\ pc = "check_notarization"
    /\ \E d \in BOOLEAN, p1 \in SpctlShellProcs, p2 \in SpctlProcs :
          LET r == check_notarization(Report, d, p1, p2)
          IN  /\ Adapter("check_notarization", r, "summary")
              /\ isdir' = d
              /\ calls' = Access("spctl", Launched(r.runs, "spctl"))

\* sys.exit(1 if failed > 0 else 0), line 167
ExitCode(f) == IF f > 0 THEN 1 ELSE 0

\* lines 160-167
Summary ==
    /\ pc = "summary"
    /\ total' = passed + failed
    /\ out' = Append(out, CheckLine("", "checks passed.",
                        IF failed = 0 THEN "Release is complete."
                        ELSE "check(s) failed - review above."))
    /\ exitStatus' = ExitCode(failed)
    /\ pc' = "exited"
    /\ UNCHANGED <<argv, version, isdir, passed, failed, traceback, fn, runs,
                   calls>>

Next ==
    \/ Usage
    \/ Start
    \/ CheckInfoPlist
    \/ CheckChangelog
    \/ CheckGitTag
    \/ CheckHomebrewCask
    \/ CheckGithubRelease
    \/ CheckAppcast
    \/ CheckNotarization
    \/ Summary

Spec == Init /\ [][Next]_vars

-----------------------------------------------------------------------------
(* Properties *)

\* the [PASS]/[FAIL] lines of an output
IsCheck(l) == l.tag \in {"PASS", "FAIL"}
CheckLines(o) == {i \in DOMAIN o : IsCheck(o[i])}
NumChecks(o) == Cardinality(CheckLines(o))
Labelled(o, label) == {i \in CheckLines(o) : o[i].label = label}

OneArgument == Len(argv) = 1

\* C1: in a run with exactly one argument a fault inside an adapter never
\* ends the run early: the run reaches its exit with no exception escaped,
\* the summary computed and printed, and check_notarization having run.
C1_FaultIsolation ==
    (OneArgument /\ pc = "exited") =>
        /\ ~traceback
        /\ total # -1
        /\ out[Len(out)].label = "checks passed."
        /\ fn = "check_notarization"
        /\ Labelled(out, "App notarization valid") # {}

C3_ExitStatus ==
    (OneArgument /\ pc = "exited") =>
        /\ exitStatus \in {0, 1}
        /\ (exitStatus = 0 <=> failed = 0)

\* C4: started with zero or with two or more arguments, the program prints
\* the usage and exits with status 2; no adapter is invoked, no check is
\* recorded and no external source is accessed.
C4_UsageExit ==
    (~OneArgument /\ pc # "main") =>
        /\ pc = "exited" /\ exitStatus = 2
        /\ passed = 0 /\ failed = 0
        /\ NumChecks(out) = 0
        /\ out = <<CheckLine("", "Usage", ""), CheckLine("", "Example", "")>>
        /\ fn = "" /\ runs = <<>>
        /\ \A src \in Sources : calls[src] = 0

C4_Witness == Len(argv) = 2 /\ pc = "exited" /\ exitStatus = 2

\* C5: check_github_release always records exactly two checks, "GitHub
\* release exists" then "Release asset ContainerBar.zip uploaded"; when the
\* release-metadata call returns a non-success status both are failed, the
\* asset check's detail is "release not found" and the asset listing is not
\* called.
C5_TwoChecks ==
    fn = "check_github_release" =>
        LET n == Len(out)
        IN  /\ Cardinality(Labelled(out, "GitHub release exists")) = 1
            /\ Cardinality(Labelled(out,
                    "Release asset ContainerBar.zip uploaded")) = 1
            /\ out[n - 1].label = "GitHub release exists"
            /\ out[n].label = "Release asset ContainerBar.zip uploaded"
            /\ (runs[1].exc = "" /\ runs[1].rc # 0) =>
                    /\ out[n - 1].tag = "FAIL"
                    /\ out[n] = CheckLine("FAIL",
                                    "Release asset ContainerBar.zip uploaded",
                                    "release not found")
                    /\ calls["gh release assets"] = 0

\* C6: when the bundle is not a directory, check_notarization records
\* exactly one failed check, whose detail names the missing path, launches
\* no command and returns.
C6_ShortCircuit ==
    [][(pc = "check_notarization" /\ ~isdir') =>
          /\ failed' = failed + 1
          /\ passed' = passed
          /\ out' = Append(out, CheckLine("FAIL", "App notarization valid",
                                          "app not found: " \o APP_BUNDLE))
          /\ Contains(APP_BUNDLE, out'[Len(out')].detail)
          /\ runs' = <<>>
          /\ calls' = calls
          /\ pc' = "summary"]_vars

C6_Witness ==
    /\ fn = "check_notarization" /\ ~isdir /\ pc = "summary"
    /\ out[Len(out)].label = "App notarization valid"

\* C7: when the tag-listing command returned, and answered alike each time
\* it was launched, check_git_tag records one check, which passes if and
\* only if the command exited with status zero and printed the tag
\* "v" + version as a whole line.
C7_TagCheck ==
    (fn = "check_git_tag" /\ ~traceback /\ \A i \in DOMAIN runs : runs[i] = runs[1])
    =>  /\ Cardinality(Labelled(out, "Git tag exists")) = 1
        /\ out[Len(out)].label = "Git tag exists"
        /\ out[Len(out)].tag = "PASS" <=>
              (runs[1].rc = 0 /\ InLines("v" \o version, runs[1].out))

\* C8: check_info_plist records exactly two checks, "Info.plist version"
\* once and "Info.plist build" once, each counted once, whatever the file
\* holds, and no exception escapes it.
C8_TwoChecks ==
    fn = "check_info_plist" =>
        /\ ~traceback
        /\ passed + failed = 2
        /\ NumChecks(out) = 2
        /\ Cardinality(Labelled(out, "Info.plist version")) = 1
        /\ Cardinality(Labelled(out, "Info.plist build")) = 1
        /\ out[Len(out) - 1].label = "Info.plist version"
        /\ out[Len(out)].label = "Info.plist build"

\* C9: within one run no external source is accessed more than once; the
\* tag listing is invoked exactly once by check_git_tag and the signing
\* assessment exactly once by check_notarization when the bundle exists.
C9_FetchedOnce ==
    /\ \A src \in Sources : calls[src] <= 1
    /\ (fn = "check_git_tag" /\ ~traceback) => calls["git tag"] = 1
    /\ (fn = "check_notarization" /\ isdir /\ ~traceback) => calls["spctl"] = 1

\* C10: when the release-metadata call succeeded and the asset listing
\* returned, the asset check passes if and only if the listing exited with
\* status zero and one of the names it printed is exactly ContainerBar.zip.
C10_ExactAsset ==
    (fn = "check_github_release" /\ Len(runs) = 2 /\ ~traceback) =>
        /\ out[Len(out)].label = "Release asset ContainerBar.zip uploaded"
        /\ out[Len(out)].tag = "PASS" <=>
              (runs[2].rc = 0 /\ InLines("ContainerBar.zip", runs[2].out))

====
